---- MODULE Spec2Model ----
(***************************************************************************)
(* Model of the IPNI advertisement publisher                              *)
(* (ipnipublisher/publisher/publisher.go).                                 *)
(*                                                                         *)
(* One call of publishAdvForIndex is a sequence of steps, one per call     *)
(* into the store, the signer, the validator or the announcer.  Every such *)
(* call either succeeds or returns an error (an I/O failure, or the        *)
(* caller's context being cancelled), after which the handler returns.     *)
(* Two callers (goroutines) share one engine and one store.                *)
(***************************************************************************)
EXTENDS Integers, Sequences, FiniteSets, TLC

\* ------------------------------------------------------------------ bounds
MaxAds == 2     \* advertisements the store may come to hold
MaxMd  == 2     \* metadata values are 0..MaxMd, 0 the metadata with no protocols

\* -------------------------------------------------------------- value sets
Procs       == {1, 2}                    \* the callers of the engine
Self        == "peerA"                   \* peer ID of the engine's private key
Providers   == {"peerA", "peerB"}        \* provider identities a caller may pass
ContextIDs  == {"ctx1"}
EmptyMd     == 0                         \* the metadata with no protocols
NoMd        == -1                        \* no metadata stored under the key
Metadatas   == EmptyMd..MaxMd
Keys        == Providers \X ContextIDs
DigestLists == {<< >>, <<"d1">>}
Topic       == "/indexer/ingest/mainnet"

NilLink   == [kind |-> "nil"]
NoEntries == [kind |-> "noentries"]
NilHead   == [Head |-> 0, Topic |-> "", Sig |-> ""]

VARIABLES
  sender,     \* TRUE iff an announce sender is configured
  chunks,     \* store: (provider, contextID) -> entries link, NilLink when not found
  mds,        \* store: (provider, contextID) -> metadata, NoMd when not found
  entries,    \* store: the entries lists PutEntries has written
  ads,        \* store: the advertisements; an advertisement's link is its index
  head,       \* store: the signed head, NilHead when there is none
  announced,  \* the links handed to announce.Send
  pc, args, loc, res, pre,    \* per caller: position, arguments, locals, result, store at entry
  last,       \* the arguments of the call that returned last, if it returned a link;
              \* for a removal, with the metadata the context had before it
  lastLink,   \* the link the last successful call returned, 0 when none has
  returned,   \* the links successful calls have returned
  overlap,    \* TRUE once a call has started while another was in progress
  ncalls      \* the calls the unsynchronized callers have made

storeVars == <<chunks, mds, entries, ads, head, announced>>
callVars  == <<pc, args, loc, res, pre>>
histVars  == <<last, lastLink, returned, overlap, ncalls>>
vars      == <<sender, chunks, mds, entries, ads, head, announced,
               pc, args, loc, res, pre, last, lastLink, returned, overlap, ncalls>>

\* ------------------------------------------------------------ the store
Key(a) == <<a.prov, a.ctx>>

Put(m, k, v) == [m EXCEPT ![k] = v]

Delete(m, k, none) == [m EXCEPT ![k] = none]

\* PutEntries: the link of the entries list made of the digests, nil when
\* the digests make no list.
EntriesLinkOf(mhs) == IF mhs = << >> THEN NilLink ELSE [kind |-> "entries", mhs |-> mhs]

\* PutAdvert: the link is derived from the advertisement's content, so
\* storing an advertisement the store already holds yields the same link.
Stored(as, adv) == {i \in 1..Len(as) : as[i] = adv}

AdvertsAfterPut(as, adv) == IF Stored(as, adv) = {} THEN Append(as, adv) ELSE as

AdvertLink(as, adv) == CHOOSE i \in 1..Len(as) : as[i] = adv

Snapshot == [chunks |-> chunks, mds |-> mds, entries |-> entries, ads |-> ads,
             head |-> head, announced |-> announced]

\* ----------------------------------------------------------- idle values
NoArgs == [prov |-> "", ctx |-> "", md |-> EmptyMd, isRm |-> FALSE, mhs |-> << >>]
NoAdv  == [Provider |-> "", Entries |-> NilLink, ContextID |-> "", Metadata |-> EmptyMd,
           IsRm |-> FALSE, PreviousID |-> 0, Signature |-> ""]
NoLoc  == [chunkLink |-> NilLink, md |-> EmptyMd, adv |-> NoAdv, lnk |-> 0]
NoRes  == [kind |-> "none", at |-> "", link |-> 0, announce |-> "none"]
NoChunks == [k \in Keys |-> NilLink]
NoMds    == [k \in Keys |-> NoMd]
NoPre  == [chunks |-> NoChunks, mds |-> NoMds, entries |-> {}, ads |-> << >>,
           head |-> NilHead, announced |-> {}]

Init ==
  /\ sender \in BOOLEAN
  /\ chunks = NoChunks /\ mds = NoMds /\ entries = {} /\ ads = << >>
  /\ head = NilHead /\ announced = {}
  /\ pc = [p \in Procs |-> "idle"]
  /\ args = [p \in Procs |-> NoArgs]
  /\ loc = [p \in Procs |-> NoLoc]
  /\ res = [p \in Procs |-> NoRes]
  /\ pre = [p \in Procs |-> NoPre]
  /\ last = NoArgs /\ lastLink = 0 /\ returned = {} /\ overlap = FALSE /\ ncalls = 0

\* ------------------------------------------------------- entering a call
InCall == {q \in Procs : pc[q] # "idle"}

\* A call starts only while the store can still take the advertisement of
\* every call in progress.
Enter(p, a, n) ==
  /\ pc[p] = "idle"
  /\ Len(ads) + Cardinality(InCall) < MaxAds
  /\ pc' = [pc EXCEPT ![p] = "GetChunkLink"]
  /\ args' = [args EXCEPT ![p] = a]
  /\ pre' = [pre EXCEPT ![p] = Snapshot]
  /\ overlap' = (overlap \/ InCall # {})
  /\ ncalls' = ncalls + n
  /\ UNCHANGED <<sender, storeVars, loc, res, last, lastLink, returned>>

\* Publish: publishAdvForIndex with isRm = false.
PublishArgs(PS) ==
  {[prov |-> pr, ctx |-> c, md |-> m, isRm |-> FALSE, mhs |-> d] :
     pr \in PS, c \in ContextIDs, m \in Metadatas, d \in DigestLists}

\* The removal: publishAdvForIndex with isRm = true; it reads neither the
\* digests nor the metadata.
RemoveArgs(PS) ==
  {[prov |-> pr, ctx |-> c, md |-> EmptyMd, isRm |-> TRUE, mhs |-> << >>] :
     pr \in PS, c \in ContextIDs}

Publish(p, PS, n) == \E a \in PublishArgs(PS) : Enter(p, a, n)

\* Publish for any provider identity, with one metadata value and one
\* digest list.
PublishForArgs ==
  {a \in PublishArgs(Providers) : a.md = MaxMd /\ a.mhs = <<"d1">>}

PublishFor(p, n) == \E a \in PublishForArgs : Enter(p, a, n)

Remove(p, PS, n) == \E a \in RemoveArgs(PS) : Enter(p, a, n)

\* --------------------------------------------------------- leaving a step
Goto(p, next) == pc' = [pc EXCEPT ![p] = next]

ErrResult(at) == [kind |-> "err", at |-> at, link |-> 0, announce |-> "none"]

Done(p, r) ==
  /\ pc' = [pc EXCEPT ![p] = "done"]
  /\ res' = [res EXCEPT ![p] = r]

\* The step's call returned an error: the handler returns it, nothing written.
Fail(p, at) ==
  /\ Done(p, ErrResult(at))
  /\ UNCHANGED <<sender, storeVars, args, loc, pre, histVars>>

\* ------------------------------------------------ publishAdvForIndex steps
\* Mutant: a Publish materializes the digests again though the context has
\* an entries link.
AfterChunkLookupRegenerate(isRm, chunkLink) ==
  IF ~isRm
    THEN "PutEntries"
    ELSE IF chunkLink = NilLink THEN "ErrContextIDNotFound" ELSE "DeleteChunkLink"

\* Mutant: a removal does not check that the context has an entries link.
AfterChunkLookupUnchecked(isRm, chunkLink) ==
  IF ~isRm
    THEN IF chunkLink = NilLink THEN "PutEntries" ELSE "GetMetadata"
    ELSE "DeleteChunkLink"

\* Where the handler goes once the entries link of the context is known.
AfterChunkLookup(isRm, chunkLink) ==
  IF ~isRm
    THEN IF chunkLink = NilLink THEN "PutEntries" ELSE "GetMetadata"
    ELSE IF chunkLink = NilLink THEN "ErrContextIDNotFound" ELSE "DeleteChunkLink"

GetChunkLink(p) ==
  /\ pc[p] = "GetChunkLink"
  /\ \/ Fail(p, "GetChunkLink")
     \/ LET cl   == chunks[Key(args[p])]
            next == AfterChunkLookup(args[p].isRm, cl)
        IN  /\ IF next = "ErrContextIDNotFound"
                 THEN Done(p, [kind |-> "notfound", at |-> "", link |-> 0,
                               announce |-> "none"])
                 ELSE Goto(p, next) /\ UNCHANGED res
            /\ loc' = [loc EXCEPT ![p].chunkLink = cl, ![p].md = args[p].md]
            /\ UNCHANGED <<sender, storeVars, args, pre, histVars>>

\* Mutant: a nil link from chunking is kept as it is.
NewChunkLinkKeptNil(lnk) == lnk

\* The entries link of a first publish: the sentinel when chunking made no link.
NewChunkLink(lnk) == IF lnk = NilLink THEN NoEntries ELSE lnk

PutEntries(p) ==
  /\ pc[p] = "PutEntries"
  /\ \/ Fail(p, "PutEntries")
     \/ LET lnk == EntriesLinkOf(args[p].mhs)
        IN  /\ entries' = (IF lnk = NilLink THEN entries ELSE entries \cup {lnk})
            /\ loc' = [loc EXCEPT ![p].chunkLink = NewChunkLink(lnk)]
            /\ Goto(p, "PutChunkLink")
            /\ UNCHANGED <<sender, chunks, mds, ads, head, announced, args, res, pre,
                           histVars>>

PutChunkLink(p) ==
  /\ pc[p] = "PutChunkLink"
  /\ \/ Fail(p, "PutChunkLink")
     \/ /\ chunks' = Put(chunks, Key(args[p]), loc[p].chunkLink)
        /\ Goto(p, "PutMetadata")
        /\ UNCHANGED <<sender, mds, entries, ads, head, announced, args, loc, res, pre,
                       histVars>>

\* What the metadata lookup hands back: the zero metadata when not found.
PrevMetadata(m) == IF m = NoMd THEN EmptyMd ELSE m

\* Mutant: the comparison never finds the metadata equal.
SameMetadataNever(md, prevMetadata) == FALSE

\* md.Equal(prevMetadata)
SameMetadata(md, prevMetadata) == md = prevMetadata

GetMetadata(p) ==
  /\ pc[p] = "GetMetadata"
  /\ \/ Fail(p, "GetMetadata")
     \/ /\ IF SameMetadata(loc[p].md, PrevMetadata(mds[Key(args[p])]))
             THEN Done(p, [kind |-> "already", at |-> "", link |-> 0,
                           announce |-> "none"])
             ELSE Goto(p, "PutMetadata") /\ UNCHANGED res
        /\ UNCHANGED <<sender, storeVars, args, loc, pre, histVars>>

PutMetadata(p) ==
  /\ pc[p] = "PutMetadata"
  /\ \/ Fail(p, "PutMetadata")
     \/ /\ mds' = Put(mds, Key(args[p]), loc[p].md)
        /\ Goto(p, "Marshal")
        /\ UNCHANGED <<sender, chunks, entries, ads, head, announced, args, loc, res,
                       pre, histVars>>

\* Mutant: the removal leaves the entries link of the context in the store.
DeleteChunkLinkSkipped(p) ==
  /\ pc[p] = "DeleteChunkLink"
  /\ Goto(p, "DeleteMetadata")
  /\ UNCHANGED <<sender, storeVars, args, loc, res, pre, histVars>>

DeleteChunkLink(p) ==
  /\ pc[p] = "DeleteChunkLink"
  /\ \/ Fail(p, "DeleteChunkLink")
     \/ /\ chunks' = Delete(chunks, Key(args[p]), NilLink)
        /\ Goto(p, "DeleteMetadata")
        /\ UNCHANGED <<sender, mds, entries, ads, head, announced, args, loc, res, pre,
                       histVars>>

\* Mutant: the removal advertisement keeps the entries link of the context.
RemovalLocalsKeepEntries(l) == [l EXCEPT !.md = EmptyMd]

\* The entries and the metadata of a removal advertisement.
RemovalLocals(l) == [l EXCEPT !.chunkLink = NoEntries, !.md = EmptyMd]

DeleteMetadata(p) ==
  /\ pc[p] = "DeleteMetadata"
  /\ \/ Fail(p, "DeleteMetadata")
     \/ /\ mds' = Delete(mds, Key(args[p]), NoMd)
        /\ loc' = [loc EXCEPT ![p] = RemovalLocals(loc[p])]
        /\ Goto(p, "Marshal")
        /\ UNCHANGED <<sender, chunks, entries, ads, head, announced, args, res, pre,
                       histVars>>

\* The advertisement as built, before the previous link and the signature.
BuildAdv(a, l) ==
  [Provider |-> a.prov, Entries |-> l.chunkLink, ContextID |-> a.ctx,
   Metadata |-> l.md, IsRm |-> a.isRm, PreviousID |-> 0, Signature |-> ""]

Marshal(p) ==
  /\ pc[p] = "Marshal"
  /\ \/ Fail(p, "Marshal")
     \/ /\ loc' = [loc EXCEPT ![p].adv = BuildAdv(args[p], loc[p])]
        /\ Goto(p, "GetHead")
        /\ UNCHANGED <<sender, storeVars, args, res, pre, histVars>>

\* Mutant: the previous link is never set.
PreviousIDUnset(prevHead) == 0

\* The previous link: the head's link, none when there is no head.
PreviousID(prevHead) == IF prevHead = NilHead THEN 0 ELSE prevHead.Head

GetHead(p) ==
  /\ pc[p] = "GetHead"
  /\ \/ Fail(p, "GetHead")
     \/ /\ loc' = [loc EXCEPT ![p].adv.PreviousID = PreviousID(head)]
        /\ Goto(p, "Sign")
        /\ UNCHANGED <<sender, storeVars, args, res, pre, histVars>>

\* Mutant: the advertisement is not signed.
SignSkipped(p) ==
  /\ pc[p] = "Sign"
  /\ Goto(p, "Validate")
  /\ UNCHANGED <<sender, storeVars, args, loc, res, pre, histVars>>

Sign(p) ==
  /\ pc[p] = "Sign"
  /\ \/ Fail(p, "Sign")
     \/ /\ loc' = [loc EXCEPT ![p].adv.Signature = Self]
        /\ Goto(p, "Validate")
        /\ UNCHANGED <<sender, storeVars, args, res, pre, histVars>>

\* ------------------------------------------------------ publishLocal steps
Validate(p) ==
  /\ pc[p] = "Validate"
  /\ \/ Fail(p, "Validate")
     \/ /\ Goto(p, "PutAdvert")
        /\ UNCHANGED <<sender, storeVars, args, loc, res, pre, histVars>>

\* Mutant: the error of PutAdvert is dropped and the handler goes on with
\* the link of the advertisement, stored or not.
PutAdvertErrIgnored(p) ==
  /\ pc[p] = "PutAdvert"
  /\ \/ ads' = ads
     \/ ads' = AdvertsAfterPut(ads, loc[p].adv)
  /\ loc' = [loc EXCEPT ![p].lnk =
               IF Stored(ads, loc[p].adv) = {} THEN Len(ads) + 1
               ELSE AdvertLink(ads, loc[p].adv)]
  /\ Goto(p, "NewSignedHead")
  /\ UNCHANGED <<sender, chunks, mds, entries, head, announced, args, res, pre,
                 histVars>>

PutAdvert(p) ==
  /\ pc[p] = "PutAdvert"
  /\ \/ Fail(p, "PutAdvert")
     \/ /\ ads' = AdvertsAfterPut(ads, loc[p].adv)
        /\ loc' = [loc EXCEPT ![p].lnk = AdvertLink(ads', loc[p].adv)]
        /\ Goto(p, "NewSignedHead")
        /\ UNCHANGED <<sender, chunks, mds, entries, head, announced, args, res, pre,
                       histVars>>

NewSignedHead(p) ==
  /\ pc[p] = "NewSignedHead"
  /\ \/ Fail(p, "NewSignedHead")
     \/ /\ Goto(p, "PutHead")
        /\ UNCHANGED <<sender, storeVars, args, loc, res, pre, histVars>>

\* Mutant: the head wraps the previous link of the advertisement just stored.
SignedHeadOfPreviousID(lnk) ==
  [Head |-> ads[lnk].PreviousID, Topic |-> Topic, Sig |-> Self]

\* The signed head wrapping the link of the advertisement just stored.
SignedHead(lnk) == [Head |-> lnk, Topic |-> Topic, Sig |-> Self]

\* Mutant: the error of PutHead is logged and the handler goes on.
PutHeadErrIgnored(p) ==
  /\ pc[p] = "PutHead"
  /\ \/ head' = head
     \/ head' = SignedHead(loc[p].lnk)
  /\ Goto(p, "Announce")
  /\ UNCHANGED <<sender, chunks, mds, entries, ads, announced, args, loc, res, pre,
                 histVars>>

PutHead(p) ==
  /\ pc[p] = "PutHead"
  /\ \/ Fail(p, "PutHead")
     \/ /\ head' = SignedHead(loc[p].lnk)
        /\ Goto(p, "Announce")
        /\ UNCHANGED <<sender, chunks, mds, entries, ads, announced, args, loc, res, pre,
                       histVars>>

\* ----------------------------------------------------------- publish step
\* Mutant: the error of the announcement is returned to the caller.
PublishResultPropagating(lnk, sent) ==
  IF sent = "failed" THEN ErrResult("Announce")
  ELSE [kind |-> "ok", at |-> "", link |-> lnk, announce |-> sent]

\* What publish returns once publishLocal has succeeded.
PublishResult(lnk, sent) == [kind |-> "ok", at |-> "", link |-> lnk, announce |-> sent]

Announce(p) ==
  /\ pc[p] = "Announce"
  /\ \/ /\ ~sender
        /\ Done(p, PublishResult(loc[p].lnk, "none"))
        /\ UNCHANGED announced
     \/ /\ sender
        /\ \E sent \in {"ok", "failed"} : Done(p, PublishResult(loc[p].lnk, sent))
        /\ announced' = announced \cup {loc[p].lnk}
  /\ UNCHANGED <<sender, chunks, mds, entries, ads, head, args, loc, pre, histVars>>

\* The call returns to its caller.
Return(p) ==
  /\ pc[p] = "done"
  /\ pc' = [pc EXCEPT ![p] = "idle"]
  /\ last' = (IF res[p].kind # "ok" THEN NoArgs
              ELSE IF args[p].isRm
                THEN [args[p] EXCEPT !.md = pre[p].mds[Key(args[p])]]
                ELSE args[p])
  /\ lastLink' = (IF res[p].kind = "ok" THEN res[p].link ELSE lastLink)
  /\ returned' = (IF res[p].kind = "ok" THEN returned \cup {res[p].link} ELSE returned)
  /\ args' = [args EXCEPT ![p] = NoArgs]
  /\ loc' = [loc EXCEPT ![p] = NoLoc]
  /\ res' = [res EXCEPT ![p] = NoRes]
  /\ pre' = [pre EXCEPT ![p] = NoPre]
  /\ UNCHANGED <<sender, storeVars, overlap, ncalls>>

Step(p) ==
  \/ GetChunkLink(p) \/ PutEntries(p) \/ PutChunkLink(p) \/ GetMetadata(p)
  \/ PutMetadata(p) \/ DeleteChunkLink(p) \/ DeleteMetadata(p) \/ Marshal(p)
  \/ GetHead(p) \/ Sign(p) \/ Validate(p) \/ PutAdvert(p) \/ NewSignedHead(p)
  \/ PutHead(p) \/ Announce(p) \/ Return(p)

\* The calls are serialized, as the engine requires: one caller at a time,
\* publishing for the engine's own identity.
Next ==
  \E p \in {1} :
    \/ Publish(p, {Self}, 0)
    \/ Remove(p, {Self}, 0)
    \/ Step(p)

Spec == Init /\ [][Next]_vars

\* Serialized calls of one caller that publishes for any provider identity.
NextProv ==
  \E p \in {1} :
    \/ PublishFor(p, 0)
    \/ Remove(p, Providers, 0)
    \/ Step(p)

SpecProv == Init /\ [][NextProv]_vars

\* Callers that do not synchronize: two calls on one engine, which may
\* interleave or follow one another.
ConcCalls == Cardinality(Procs)

NextConc ==
  \E p \in Procs :
    \/ ncalls < ConcCalls /\ Publish(p, {Self}, 1)
    \/ ncalls < ConcCalls /\ Remove(p, {Self}, 1)
    \/ Step(p)

SpecConc == Init /\ [][NextConc]_vars

\* ================================================================ claims
Links == 1..Len(ads)

HeadLink == head.Head

\* The links on the chain from link l back to the first advertisement.
RECURSIVE ChainFrom(_)
ChainFrom(l) == IF l = 0 \/ l \notin Links THEN {} ELSE {l} \cup ChainFrom(ads[l].PreviousID)

Returned(p, kind) == pc[p] = "done" /\ res[p].kind = kind

FailedAt(p, steps) == Returned(p, "err") /\ res[p].at \in steps

\* The call of p has not stored the head (yet, or at all).
HeadNotStoredBy(p) ==
  pc[p] \notin {"idle", "Announce"} /\ ~Returned(p, "ok")

\* C1 -- Commit ordering: in every state, also those reached when a step
\* fails or the call is cancelled part-way, the head, when there is one,
\* names an advertisement the store holds; and as long as a call has not
\* got past storing the head (the advertisement store failed, has not
\* happened yet, or the failure fell between the two stores) the head is the
\* one the call found.
CommitOrdering ==
  /\ head # NilHead => HeadLink \in Links
  /\ \A p \in Procs : HeadNotStoredBy(p) => head = pre[p].head

\* A failure between the advertisement store and the head store, with a
\* head already there: the advertisement is stored, the head is the old one.
CommitOrderingWitness ==
  /\ FailedAt(1, {"NewSignedHead", "PutHead"})
  /\ Len(ads) > Len(pre[1].ads)
  /\ pre[1].head # NilHead

\* C2 -- Chain linkage: the advertisement of every successful call has as
\* previous link the link the successful call before it returned, and no
\* previous link when no call has succeeded before.
ChainLinkage ==
  \A p \in Procs :
    Returned(p, "ok") =>
      /\ res[p].link \in Links
      /\ ads[res[p].link] = loc[p].adv
      /\ ads[res[p].link].PreviousID = lastLink

ChainLinkageWitness == Returned(1, "ok") /\ lastLink # 0 /\ res[1].link # lastLink

\* The store reads of Publish before it writes anything.
FirstReads == {"GetChunkLink", "GetMetadata"}

\* C3 -- Idempotency: a Publish with the arguments of the successful Publish
\* right before it returns AlreadyAdvertised (its store reads not failing;
\* when one does it returns that error) and leaves the head, the stored
\* advertisements, the entries lists and the chunk and metadata
\* associations as the first call left them.
Idempotency ==
  \A p \in Procs :
    (pc[p] = "done" /\ last # NoArgs /\ ~last.isRm /\ args[p] = last) =>
      /\ Returned(p, "already") \/ FailedAt(p, FirstReads)
      /\ Snapshot = pre[p]

IdempotencyWitness ==
  /\ Returned(1, "already") /\ last # NoArgs /\ ~last.isRm /\ args[1] = last
  /\ head # NilHead

\* C4 (as stated) -- the stored advertisements form one linear chain: each
\* but the first has a previous link naming an advertisement stored before
\* it, and no two have the same previous link.
StoredAdsNeverBranch ==
  /\ \A i \in Links : i > 1 => ads[i].PreviousID \in 1..(i - 1)
  /\ \A i, j \in Links : i # j => ads[i].PreviousID # ads[j].PreviousID

\* C4 (amended) -- every stored advertisement has a previous link that is
\* nil or names an advertisement stored before it; the advertisements calls
\* have returned all lie on the chain from the head, no two of them with the
\* same previous link; an advertisement off that chain was never returned.
ReturnedAdsNeverBranch ==
  /\ \A i \in Links : ads[i].PreviousID \in 0..(i - 1)
  /\ returned \subseteq ChainFrom(HeadLink)
  /\ \A i, j \in returned : i # j => ads[i].PreviousID # ads[j].PreviousID
  /\ \A p \in Procs : Returned(p, "ok") => res[p].link = HeadLink

\* Two advertisements stored with the same previous link, one returned and
\* on the chain, the other left by a call that failed after storing it.
ReturnedAdsNeverBranchWitness ==
  /\ InCall = {}
  /\ \E i \in returned : \E j \in Links \ ChainFrom(HeadLink) :
       ads[i].PreviousID = ads[j].PreviousID

\* Two returned advertisements with the same previous link, one of them not
\* on the chain from the head, every call having returned.
LostAdvertisement ==
  /\ InCall = {}
  /\ \E i, j \in returned :
       /\ i # j
       /\ ads[i].PreviousID = ads[j].PreviousID
       /\ i \in ChainFrom(HeadLink)
       /\ j \notin ChainFrom(HeadLink)

\* C5 -- Concurrency hazard: interleaved calls can both read the same head,
\* both return a link, and leave two advertisements with the same previous
\* link of which one is not on the chain from the head; as long as no call
\* has started while another was in progress that state is not reached.
LostOnlyWhenInterleaved == ~overlap => ~LostAdvertisement

LostOnlyWhenInterleavedWitness == LostAdvertisement

\* C6 -- Store read failure mutates nothing: when the chunk-link lookup, the
\* metadata lookup or the head lookup fails, the call returns the error and
\* the chunk and metadata associations, the stored advertisements and the
\* head are as they were before the call.
ReadFailureMutatesNothing ==
  \A p \in Procs :
    FailedAt(p, {"GetChunkLink", "GetMetadata", "GetHead"}) =>
      /\ chunks = pre[p].chunks /\ mds = pre[p].mds
      /\ ads = pre[p].ads /\ head = pre[p].head

\* C7 -- Metadata-only republish: a Publish for a context that has a chunk
\* association and stored metadata, with other metadata, materializes
\* nothing and leaves the chunk association alone; it does not return
\* AlreadyAdvertised, and when it returns a link, the advertisement has the
\* stored chunk link as Entries and the new metadata, which is then the
\* stored metadata.
MetadataOnlyRepublishCase(p) ==
  /\ pc[p] = "done" /\ ~args[p].isRm
  /\ pre[p].chunks[Key(args[p])] # NilLink
  /\ pre[p].mds[Key(args[p])] \notin {NoMd, args[p].md}

MetadataOnlyRepublish ==
  \A p \in Procs :
    MetadataOnlyRepublishCase(p) =>
      /\ chunks = pre[p].chunks /\ entries = pre[p].entries
      /\ res[p].kind \in {"ok", "err"}
      /\ Returned(p, "ok") =>
           /\ ads[res[p].link].Entries = pre[p].chunks[Key(args[p])]
           /\ ads[res[p].link].Metadata = args[p].md
           /\ ~ads[res[p].link].IsRm
           /\ mds[Key(args[p])] = args[p].md
           /\ HeadLink = res[p].link

MetadataOnlyRepublishWitness ==
  /\ MetadataOnlyRepublishCase(1) /\ Returned(1, "ok")
  /\ ads[res[1].link].Entries.kind = "entries"
  /\ args[1].mhs = ads[res[1].link].Entries.mhs

\* C8 -- Removal requires prior existence: a removal for a context with no
\* chunk association returns ContextNotFound (the chunk lookup not failing;
\* when it does, that error), stores no advertisement and leaves the head
\* and the chunk and metadata associations as they were.
RemovalOfUnknownCase(p) ==
  pc[p] = "done" /\ args[p].isRm /\ pre[p].chunks[Key(args[p])] = NilLink

RemovalRequiresExistence ==
  \A p \in Procs :
    RemovalOfUnknownCase(p) =>
      /\ Returned(p, "notfound") \/ FailedAt(p, {"GetChunkLink"})
      /\ Snapshot = pre[p]

RemovalRequiresExistenceWitness ==
  RemovalOfUnknownCase(1) /\ Returned(1, "notfound") /\ head # NilHead

\* C9 -- Removal clears associations: after a removal that returned a link,
\* the chunk link and the metadata of the context are not found, and the
\* advertisement has IsRm set, the no-entries sentinel as Entries and the
\* head from before the removal as previous link.
RemovalClears ==
  \A p \in Procs :
    (Returned(p, "ok") /\ args[p].isRm) =>
      /\ chunks[Key(args[p])] = NilLink
      /\ mds[Key(args[p])] = NoMd
      /\ ads[res[p].link].IsRm
      /\ ads[res[p].link].Entries = NoEntries
      /\ ads[res[p].link].ContextID = args[p].ctx
      /\ ads[res[p].link].PreviousID = pre[p].head.Head

RemovalClearsWitness ==
  /\ Returned(1, "ok") /\ args[1].isRm
  /\ pre[1].head # NilHead
  /\ pre[1].chunks[Key(args[1])] \notin {NilLink, NoEntries}

\* C10 -- Announce failure never surfaces: once publishLocal has succeeded
\* the call returns the advertisement's link, whether there is no sender,
\* the send succeeds or the send fails, and the step changes neither the
\* head nor the stored advertisements; the sender is used only there, so
\* never by a call whose local commit failed, and a call that returns from
\* any other step does not return a link.
AnnounceNeverSurfaces ==
  [][\A p \in Procs :
       /\ (pc[p] = "Announce" /\ pc'[p] # "Announce") =>
            /\ pc'[p] = "done"
            /\ res'[p].kind = "ok" /\ res'[p].link = loc[p].lnk
            /\ loc[p].lnk \in Links /\ ads[loc[p].lnk] = loc[p].adv
            /\ head' = head /\ ads' = ads
       /\ (pc[p] # "Announce" /\ pc'[p] = "done" /\ pc[p] # "done") =>
            /\ res'[p].kind # "ok"
            /\ announced' = announced
       /\ announced' # announced =>
            \E q \in Procs : pc[q] = "Announce" /\ sender
                             /\ announced' = announced \cup {loc[q].lnk}
    ]_vars

AnnounceNeverSurfacesWitness ==
  Returned(1, "ok") /\ res[1].announce = "failed" /\ HeadLink = res[1].link

\* C11 -- Validation fails fast with no partial state: when validation of
\* the advertisement fails, no advertisement is stored, the head is
\* unchanged and the chunk and metadata associations are as they were
\* before the call.
ValidationFailsFast ==
  \A p \in Procs :
    FailedAt(p, {"Validate"}) =>
      /\ ads = pre[p].ads /\ head = pre[p].head
      /\ chunks = pre[p].chunks /\ mds = pre[p].mds

\* C12 -- Head tracks the latest publish: when a call returns a link the
\* head names exactly that link; when it returns an error, ContextNotFound
\* or AlreadyAdvertised the head is the one from before the call.
HeadTracksLatest ==
  \A p \in Procs :
    pc[p] = "done" =>
      IF res[p].kind = "ok"
        THEN res[p].link \in Links /\ HeadLink = res[p].link /\ head.Sig = Self
        ELSE head = pre[p].head

HeadTracksLatestWitness ==
  /\ Returned(1, "ok") /\ pre[1].head # NilHead
  /\ HeadLink # pre[1].head.Head

\* The head of a provider, read off the one head the store has: its link
\* when it names an advertisement of that provider.
HeadOfProvider(q, h, as) ==
  IF h # NilHead /\ as[h.Head].Provider = q THEN h.Head ELSE 0

FirstFor(p) == \A i \in returned : ads[i].Provider # args[p].prov

\* C13 (as stated) -- One chain per provider: the first advertisement
\* published for a provider has no previous link, and a publish for one
\* provider leaves the head of every other provider as it was.
OneChainPerProvider ==
  \A p \in Procs :
    Returned(p, "ok") =>
      /\ FirstFor(p) => ads[res[p].link].PreviousID = 0
      /\ \A q \in Providers \ {args[p].prov} :
           HeadOfProvider(q, head, ads) = HeadOfProvider(q, pre[p].head, pre[p].ads)

\* C13 (amended) -- One chain per engine: the advertisement of a call that
\* returns a link names the provider the caller passed, has as previous
\* link the head the store had, whichever provider that head's
\* advertisement names, and is the one head afterwards.
OneChainPerEngine ==
  \A p \in Procs :
    Returned(p, "ok") =>
      /\ ads[res[p].link].Provider = args[p].prov
      /\ ads[res[p].link].PreviousID = pre[p].head.Head
      /\ pre[p].head.Head = lastLink
      /\ HeadLink = res[p].link

\* The first advertisement returned for a provider, linked to the
\* advertisement of another provider.
OneChainPerEngineWitness ==
  /\ Returned(1, "ok") /\ FirstFor(1)
  /\ lastLink # 0 /\ ads[lastLink].Provider # args[1].prov
  /\ ads[res[1].link].PreviousID = lastLink

\* C14 (as stated) -- Signature validity: the signature of every stored
\* advertisement is by the key of the provider the advertisement names,
\* and so is the signature of the stored head.
SignedByProviderKey ==
  /\ \A i \in Links : ads[i].Signature = ads[i].Provider
  /\ head # NilHead => head.Sig = ads[HeadLink].Provider

\* C14 (amended) -- the signature of every stored advertisement and of the
\* stored head is by the engine's key, whichever provider the advertisement
\* names; it is by the named provider's key for the advertisements that
\* name the engine's own identity.
SignedByEngineKey ==
  /\ \A i \in Links :
       /\ ads[i].Signature = Self
       /\ ads[i].Provider = Self => ads[i].Signature = ads[i].Provider
  /\ head # NilHead => head.Sig = Self /\ head.Topic = Topic

SignedByEngineKeyWitness ==
  /\ head # NilHead /\ ads[HeadLink].Provider # Self
  /\ \E i \in Links : ads[i].Provider = Self

\* A Publish for a context that has a chunk association and no metadata.
MissingMetadataCase(p) ==
  /\ pc[p] = "done" /\ ~args[p].isRm
  /\ pre[p].chunks[Key(args[p])] # NilLink
  /\ pre[p].mds[Key(args[p])] = NoMd

\* C15 -- Missing prior metadata is not fatal and not a no-op: a Publish
\* for a context with a chunk association and no stored metadata does not
\* return AlreadyAdvertised, whatever metadata the caller passes, the empty
\* metadata included; a failing step aside it writes the metadata and
\* returns an advertisement with the stored chunk link.
MissingMetadataProceeds ==
  \A p \in Procs :
    MissingMetadataCase(p) =>
      /\ ~Returned(p, "already")
      /\ Returned(p, "ok") =>
           /\ mds[Key(args[p])] = args[p].md
           /\ ads[res[p].link].Entries = pre[p].chunks[Key(args[p])]

\* A first Publish for a context, with digests that make no entries list.
EmptyDigestsCase(p) ==
  /\ pc[p] # "idle" /\ ~args[p].isRm
  /\ pre[p].chunks[Key(args[p])] = NilLink
  /\ EntriesLinkOf(args[p].mhs) = NilLink

\* C16 -- Empty digest set uses the sentinel: a first Publish whose digests
\* make no link stores the no-entries sentinel as the chunk association
\* and, when it returns a link, its advertisement has the sentinel as
\* Entries and is no removal; a later Publish for a context whose
\* association is the sentinel materializes nothing, and a later removal
\* does not return ContextNotFound.
EmptyDigestsUseSentinel ==
  \A p \in Procs :
    /\ (EmptyDigestsCase(p) /\ Returned(p, "ok")) =>
         /\ chunks[Key(args[p])] = NoEntries
         /\ ads[res[p].link].Entries = NoEntries
         /\ ~ads[res[p].link].IsRm
    /\ (EmptyDigestsCase(p) /\ pc[p] \notin {"GetChunkLink", "PutEntries",
                                            "PutChunkLink"}
          /\ ~FailedAt(p, {"GetChunkLink", "PutEntries", "PutChunkLink"})) =>
         chunks[Key(args[p])] = NoEntries
    /\ (pc[p] = "done" /\ pre[p].chunks[Key(args[p])] = NoEntries) =>
         /\ ~Returned(p, "notfound")
         /\ entries = pre[p].entries

EmptyDigestsUseSentinelWitness ==
  /\ EmptyDigestsCase(1) /\ Returned(1, "ok")
  /\ ads[res[1].link].Entries = NoEntries
  /\ pre[1].head # NilHead

\* The advertisements on the chain from the head that advertise the
\* arguments of the call of p.
AdvertisedOnChain(p) ==
  {i \in ChainFrom(HeadLink) :
     /\ ~ads[i].IsRm
     /\ ads[i].Provider = args[p].prov /\ ads[i].ContextID = args[p].ctx
     /\ ads[i].Metadata = args[p].md
     /\ ads[i].Entries = chunks[Key(args[p])]}

\* C17 -- AlreadyAdvertised implies advertised: when a Publish returns
\* AlreadyAdvertised the chain from the head holds an advertisement, no
\* removal, for that context with that metadata and the stored chunk link.
AlreadyImpliesAdvertised ==
  \A p \in Procs : Returned(p, "already") => AdvertisedOnChain(p) # {}

\* A Publish for a context that has a chunk association.
ExistingContextCase(p) ==
  ~args[p].isRm /\ pc[p] # "idle" /\ pre[p].chunks[Key(args[p])] # NilLink

\* C18 -- Digests are ignored once a context exists: a Publish for a
\* context with a chunk association never gets to materialize the digests
\* or to write the chunk association, whatever the digests; with the stored
\* metadata it returns AlreadyAdvertised (a failing store read aside).
DigestsIgnored ==
  \A p \in Procs :
    ExistingContextCase(p) =>
      /\ pc[p] \notin {"PutEntries", "PutChunkLink"}
      /\ entries = pre[p].entries /\ chunks = pre[p].chunks
      /\ (pc[p] = "done" /\ pre[p].mds[Key(args[p])] = args[p].md) =>
           Returned(p, "already") \/ FailedAt(p, FirstReads)

\* AlreadyAdvertised for digests other than those the context was published with.
DigestsIgnoredWitness ==
  /\ ExistingContextCase(1) /\ Returned(1, "already")
  /\ pre[1].chunks[Key(args[1])] # NewChunkLink(EntriesLinkOf(args[1].mhs))
  /\ pre[1].mds[Key(args[1])] = args[1].md

\* C19 -- Chunk and metadata associations stay paired: between calls, a
\* context has a metadata association exactly when it has a chunk
\* association.
AssociationsPaired ==
  InCall = {} =>
    \A k \in Keys : (chunks[k] = NilLink) <=> (mds[k] = NoMd)

\* A Publish right after the successful removal of its context.
AfterRemovalCase(p) ==
  /\ pc[p] # "idle" /\ ~args[p].isRm
  /\ last # NoArgs /\ last.isRm /\ Key(last) = Key(args[p])

\* What the chunk association of a fresh Publish is.
FreshChunkLink(mhs) ==
  IF EntriesLinkOf(mhs) = NilLink THEN NoEntries ELSE EntriesLinkOf(mhs)

\* C20 -- Republish after removal starts fresh: a Publish right after the
\* successful removal of its context, with the metadata the context had or
\* any other, does not look the metadata up and does not return
\* AlreadyAdvertised or ContextNotFound; when it returns a link it has
\* materialized its digests, stored the chunk and metadata associations
\* anew, and its advertisement is no removal and has the removal
\* advertisement as previous link.
RepublishAfterRemoval ==
  \A p \in Procs :
    AfterRemovalCase(p) =>
      /\ pc[p] # "GetMetadata"
      /\ ~Returned(p, "already") /\ ~Returned(p, "notfound")
      /\ Returned(p, "ok") =>
           /\ EntriesLinkOf(args[p].mhs) # NilLink =>
                EntriesLinkOf(args[p].mhs) \in entries
           /\ chunks[Key(args[p])] = FreshChunkLink(args[p].mhs)
           /\ mds[Key(args[p])] = args[p].md
           /\ ~ads[res[p].link].IsRm
           /\ ads[res[p].link].Entries = FreshChunkLink(args[p].mhs)
           /\ ads[res[p].link].Metadata = args[p].md
           /\ ads[res[p].link].PreviousID = lastLink
           /\ ads[lastLink].IsRm /\ ads[lastLink].ContextID = args[p].ctx

\* The republish has the metadata the context had before the removal.
RepublishAfterRemovalWitness ==
  /\ AfterRemovalCase(1) /\ Returned(1, "ok")
  /\ args[1].md = last.md /\ args[1].md # EmptyMd
  /\ args[1].mhs # << >>

====
